---- MODULE Spec2Model ----
(***************************************************************************)
(* A model of the transduce package (src/transducer.go): the reducing      *)
(* function protocol (Init / Step / Result), the Reduced termination       *)
(* marker, the catalog transducers and Compose.                            *)
(*                                                                         *)
(* A reducing function built by applying transducers to a sink is a stack  *)
(* of layers, outermost first; every layer owns the private variables its  *)
(* closure captured when the transducer was applied.  A call to Step or    *)
(* Result of the outermost layer runs to completion through all the layers *)
(* it reaches (the package is synchronous call-and-return), so one driver  *)
(* call is one action.                                                     *)
(***************************************************************************)
EXTENDS Integers, Sequences, FiniteSets, TLC

VARIABLES
    ts,     \* the transducers handed to Compose
    rf,     \* the reducing function Compose(ts...)(sink): its layers, outermost first
    w,      \* the layers' private variables and the record of the calls made
    acc,    \* the accumulator the driver holds (the last Init/Step/Result return)
    hist,   \* the inputs the driver has fed so far
    dom,    \* the inputs the source can produce
    pc,     \* "run": the driver is feeding; "done": the driver has called Result
    val,    \* marker algebra: the value under test
    prev,   \* marker algebra: the value the last operation was applied to
    op,     \* marker algebra: the last operation applied
    two     \* one transducer value applied twice: the closures' variables
            \* (heap) and, per application, what its driver holds

vars == <<ts, rf, w, acc, hist, dom, pc, val, prev, op, two>>

\* ---------------------------------------------------------------- bounds
MaxLen == 4     \* inputs a driver feeds
MaxVal == 3     \* distinct scalar inputs 1..MaxVal
MaxN == 3       \* largest count given to Take / Drop / PartitionAll
MaxDepth == 3   \* Reduced nesting built by the marker algebra
MaxSub == 2     \* longest sub-sequence given to Cat

\* ---------------------------------------------------------------- values
\* An input or forwarded item (interface{}): a scalar (nil is the scalar 0)
\* or a partition ([]interface{}) of scalars.
Scalar(x) == [p |-> FALSE, e |-> <<x>>]
Nil == Scalar(0)
Part(xs) == [p |-> TRUE, e |-> xs]
Scalars == {Scalar(x) : x \in 1..MaxVal}

\* An input the sink's step does not accept (it panics when given it, alone
\* or inside a partition).
Bad == Scalar(-1)

\* ------------------------------------------------- the Reduced marker
\* A value is its payload v under red nested *reduced wrappers.
Plain(v) == [red |-> 0, v |-> v]

\* Reduced wrapping only what is not yet wrapped.
ReducedOnce(x) == [x EXCEPT !.red = IF @ > 0 THEN @ ELSE 1]

Reduced(x) == [x EXCEPT !.red = @ + 1]

IsReduced(x) == x.red > 0

Deref(x) == [x EXCEPT !.red = @ - 1]

\* EnsureReduced without the IsReduced test.
EnsureReducedAlways(x) == [x EXCEPT !.red = @ + 1]

EnsureReduced(x) == IF IsReduced(x) THEN x ELSE Reduced(x)

Unreduced(x) == IF IsReduced(x) THEN Deref(x) ELSE x

\* ---------------------------------------------------------- transducers
\* A Transducer value is a closure; k names the function literal that made
\* it, n and f are the arguments it captured, kids the transducers it
\* captured (Transducer.Compose).
Xf(k, n, f) == [k |-> k, n |-> n, f |-> f, kids |-> <<>>]
Take(n) == Xf("Take", n, "")
Drop(n) == Xf("Drop", n, "")
Dedupe == Xf("Dedupe", 0, "")
PartitionAll(n) == Xf("PartitionAll", n, "")
PartitionBy(f) == Xf("PartitionBy", 0, f)
Interpose(sep) == Xf("Interpose", sep, "")
TakeWhile(pred) == Xf("TakeWhile", 0, pred)
TakeNth(n) == Xf("TakeNth", n, "")
DropWhile(pred) == Xf("DropWhile", 0, pred)
Filter(pred) == Xf("Filter", 0, pred)
Map(f) == Xf("Map", 0, f)
Cat(reduce) == Xf("Cat", 0, reduce)
PreservingReduced == Xf("PreservingReduced", 0, "")

\* Transducer.Compose with the two applications exchanged: other(t(s)).
TComposeSwapped(t, other) == [k |-> "Compose", n |-> 0, f |-> "", kids |-> <<other, t>>]

\* t.Compose(other): func(s) { return t(other(s)) }
TCompose(t, other) == [k |-> "Compose", n |-> 0, f |-> "", kids |-> <<t, other>>]

\* Compose(): func(s) { return s }
Identity == [k |-> "Identity", n |-> 0, f |-> "", kids |-> <<>>]

RECURSIVE ComposeFrom(_, _, _)
\* the loop of Compose: for _, t := range ts[1:] { out = out.Compose(t) }
ComposeFrom(out, xs, i) ==
    IF i > Len(xs) THEN out
    ELSE ComposeFrom(TCompose(out, xs[i]), xs, i + 1)

\* Compose with the one-argument case returning the identity transducer.
ComposeDropsSingle(xs) ==
    IF Len(xs) <= 1 THEN Identity
    ELSE ComposeFrom(xs[1], xs, 2)

Compose(xs) ==
    IF Len(xs) = 0 THEN Identity
    ELSE IF Len(xs) = 1 THEN xs[1]
    ELSE ComposeFrom(xs[1], xs, 2)

\* The variables a catalog transducer's closure allocates when it is applied.
NewState(t) ==
    CASE t.k = "Take" -> [count |-> t.n]
      [] t.k = "Drop" -> [dropped |-> 0]
      [] t.k = "Dedupe" -> [prior |-> Nil]
      [] t.k = "PartitionAll" -> [part |-> <<>>]
      [] t.k = "PartitionBy" -> [part |-> <<>>, prior |-> [mark |-> TRUE, v |-> 0]]
      [] t.k = "Interpose" -> [started |-> FALSE]
      [] t.k = "TakeNth" -> [count |-> 0]
      [] t.k = "DropWhile" -> [drop |-> TRUE]
      [] OTHER -> [none |-> TRUE]

\* The sink: a reducing function with no transducer layer.
Sink == [lay |-> <<>>, st |-> <<>>]

RECURSIVE Apply(_, _)
\* t(s): the reducing function the transducer t returns for s.
Apply(t, s) ==
    CASE t.k = "Identity" -> s
      [] t.k = "Compose" -> Apply(t.kids[1], Apply(t.kids[2], s))
      [] t.k = "Cat" ->
            \* rrf := PreservingReduced(rf); Reducing(step over rrf.Step)(rf)
            LET rrf == Apply(PreservingReduced, s)
            IN  [lay |-> <<t>> \o rrf.lay, st |-> <<NewState(t)>> \o rrf.st]
      [] OTHER -> [lay |-> <<t>> \o s.lay, st |-> <<NewState(t)>> \o s.st]

\* ------------------------------------------------------------ the calls
\* One call made on a reducing function: the input it was given (Nil for
\* Result), the marker depth of the accumulator it was given and of the
\* value it returned.
\* failed: the call did not return, it panicked.
Event(o, in, a, r, failed) ==
    [op |-> o, in |-> in, acc |-> a.red, given |-> a.v, red |-> r.red, out |-> r.v,
     failed |-> failed]

\* make([]interface{}, 0, n) with a negative n panics when the transducer
\* is applied.
ApplyPanics(lay) == \E i \in 1..Len(lay) : lay[i].k = "PartitionAll" /\ lay[i].n < 0

\* panic: a panic is unwinding the calls in progress.
NewWorld(s) ==
    [st |-> s.st, log |-> [i \in 1..(Len(s.lay) + 1) |-> <<>>], panic |-> ApplyPanics(s.lay)]

Logged(r, i, o, in, a) ==
    [ret |-> r.ret,
     w |-> [r.w EXCEPT !.log[i] = Append(@, Event(o, in, a, r.ret, r.w.panic))]]

\* The key function a PartitionBy was given (a user callback taking any
\* value; isOdd reads nil as 0).
MapFn(f, input) ==
    CASE f = "isOdd" -> input.e[1] % 2
      [] f = "constant" -> 0
      [] OTHER -> input.e[1]

\* The predicate a TakeWhile, DropWhile or Filter was given (a user callback
\* taking any value; nil is read as 0).
PredFn(f, input) ==
    CASE f = "isOdd" -> input.e[1] % 2 = 1
      [] f = "below3" -> input.e[1] < 3
      [] OTHER -> TRUE

\* The function a Map was given (a user callback).
MapperFn(f, input) ==
    CASE f = "inc" -> Scalar(input.e[1] + 1)
      [] OTHER -> input

\* The sink's step (a user callback under Completing): append the input.
SinkStep(x, result, input) ==
    IF \E j \in 1..Len(input.e) : input.e[j] = Bad.e[1]
    THEN [ret |-> result, w |-> [x EXCEPT !.panic = TRUE]]
    ELSE [ret |-> [result EXCEPT !.v = Append(@, input)], w |-> x]

\* Completing's result: func(result) { return result }
SinkResult(x, result) == [ret |-> result, w |-> x]

\* Completing's init: func() { return nil }
SinkInit == Plain(<<>>)

RECURSIVE StepAt(_, _, _, _, _)
RECURSIVE ResultAt(_, _, _, _)

\* Take forwarding while the count is not negative.
TakeStepForwardsAtZero(lay, x, i, result, input) ==
    LET current == x.st[i].count
        next == current - 1
        x1 == [x EXCEPT !.st[i].count = next]
        r == IF current >= 0 THEN StepAt(lay, x1, i + 1, result, input)
             ELSE [ret |-> result, w |-> x1]
    IN  IF next > 0 THEN r ELSE [ret |-> EnsureReduced(r.ret), w |-> r.w]

\* Take marking its result with Reduced whatever the downstream returned.
TakeStepWrapsAgain(lay, x, i, result, input) ==
    LET current == x.st[i].count
        next == current - 1
        x1 == [x EXCEPT !.st[i].count = next]
        r == IF current > 0 THEN StepAt(lay, x1, i + 1, result, input)
             ELSE [ret |-> result, w |-> x1]
    IN  IF next > 0 THEN r ELSE [ret |-> Reduced(r.ret), w |-> r.w]

\* Take terminating on the step after the one that consumes the n-th input.
TakeStepLate(lay, x, i, result, input) ==
    LET current == x.st[i].count
        next == current - 1
        x1 == [x EXCEPT !.st[i].count = next]
        r == IF current > 0 THEN StepAt(lay, x1, i + 1, result, input)
             ELSE [ret |-> result, w |-> x1]
    IN  IF current > 0 THEN r ELSE [ret |-> EnsureReduced(r.ret), w |-> r.w]

TakeStep(lay, x, i, result, input) ==
    LET current == x.st[i].count
        next == current - 1
        x1 == [x EXCEPT !.st[i].count = next]
        r == IF current > 0 THEN StepAt(lay, x1, i + 1, result, input)
             ELSE [ret |-> result, w |-> x1]
    IN  IF next > 0 THEN r ELSE [ret |-> EnsureReduced(r.ret), w |-> r.w]

\* Drop skipping one input too many.
DropStepOffByOne(lay, x, i, result, input) ==
    IF x.st[i].dropped <= lay[i].n
    THEN [ret |-> result, w |-> [x EXCEPT !.st[i].dropped = @ + 1]]
    ELSE StepAt(lay, x, i + 1, result, input)

DropStep(lay, x, i, result, input) ==
    IF x.st[i].dropped < lay[i].n
    THEN [ret |-> result, w |-> [x EXCEPT !.st[i].dropped = @ + 1]]
    ELSE StepAt(lay, x, i + 1, result, input)

DedupeStep(lay, x, i, result, input) ==
    IF x.st[i].prior = input
    THEN [ret |-> result, w |-> x]
    ELSE StepAt(lay, [x EXCEPT !.st[i].prior = input], i + 1, result, input)

\* PartitionBy starting the new buffer whatever the flush returned.
PartitionByStepKeepsInput(lay, x, i, result, input) ==
    LET value == MapFn(lay[i].f, input)
        pval == x.st[i].prior
        x1 == [x EXCEPT !.st[i].prior = [mark |-> FALSE, v |-> value]]
    IN  IF pval.mark \/ pval.v = value
        THEN [ret |-> result, w |-> [x1 EXCEPT !.st[i].part = Append(@, input.e[1])]]
        ELSE LET cpy == Part(x1.st[i].part)
                 r == StepAt(lay, [x1 EXCEPT !.st[i].part = <<>>], i + 1, result, cpy)
             IN  [ret |-> r.ret, w |-> [r.w EXCEPT !.st[i].part = Append(@, input.e[1])]]

\* PartitionBy not starting the new buffer with the input that ended a run.
PartitionByStepDropsInput(lay, x, i, result, input) ==
    LET value == MapFn(lay[i].f, input)
        pval == x.st[i].prior
        x1 == [x EXCEPT !.st[i].prior = [mark |-> FALSE, v |-> value]]
    IN  IF pval.mark \/ pval.v = value
        THEN [ret |-> result, w |-> [x1 EXCEPT !.st[i].part = Append(@, input.e[1])]]
        ELSE StepAt(lay, [x1 EXCEPT !.st[i].part = <<>>], i + 1, result,
                    Part(x1.st[i].part))

PartitionByStep(lay, x, i, result, input) ==
    LET value == MapFn(lay[i].f, input)
        pval == x.st[i].prior
        x1 == [x EXCEPT !.st[i].prior = [mark |-> FALSE, v |-> value]]
    IN  IF pval.mark \/ pval.v = value
        THEN [ret |-> result, w |-> [x1 EXCEPT !.st[i].part = Append(@, input.e[1])]]
        ELSE LET cpy == Part(x1.st[i].part)
                 r == StepAt(lay, [x1 EXCEPT !.st[i].part = <<>>], i + 1, result, cpy)
             IN  IF ~r.w.panic /\ ~IsReduced(r.ret)
                 THEN [ret |-> r.ret, w |-> [r.w EXCEPT !.st[i].part = Append(@, input.e[1])]]
                 ELSE r

\* PartitionBy finishing as PartitionAll does: ret = rf.Step(result, cpy).
PartitionByResultKeepsMarker(lay, x, i, result) ==
    LET r == IF Len(x.st[i].part) > 0
             THEN StepAt(lay, [x EXCEPT !.st[i].part = <<>>], i + 1,
                         result, Part(x.st[i].part))
             ELSE [ret |-> result, w |-> x]
    IN  ResultAt(lay, r.w, i + 1, r.ret)

PartitionByResult(lay, x, i, result) ==
    LET r == IF Len(x.st[i].part) > 0
             THEN LET s == StepAt(lay, [x EXCEPT !.st[i].part = <<>>], i + 1,
                                  result, Part(x.st[i].part))
                  IN  [ret |-> Unreduced(s.ret), w |-> s.w]
             ELSE [ret |-> result, w |-> x]
    IN  ResultAt(lay, r.w, i + 1, r.ret)

\* PartitionAll flushing a full buffer on the next input, which it keeps.
PartitionAllStepCarries(lay, x, i, result, input) ==
    IF lay[i].n = Len(x.st[i].part)
    THEN StepAt(lay, [x EXCEPT !.st[i].part = <<input.e[1]>>], i + 1, result,
                Part(x.st[i].part))
    ELSE [ret |-> result, w |-> [x EXCEPT !.st[i].part = Append(@, input.e[1])]]

PartitionAllStep(lay, x, i, result, input) ==
    LET part == Append(x.st[i].part, input.e[1])
    IN  IF lay[i].n = Len(part)
        THEN StepAt(lay, [x EXCEPT !.st[i].part = <<>>], i + 1, result, Part(part))
        ELSE [ret |-> result, w |-> [x EXCEPT !.st[i].part = part]]

\* PartitionAll finishing without flushing its buffer.
PartitionAllResultNoFlush(lay, x, i, result) == ResultAt(lay, x, i + 1, result)

PartitionAllResult(lay, x, i, result) ==
    LET r == IF Len(x.st[i].part) > 0
             THEN StepAt(lay, [x EXCEPT !.st[i].part = <<>>], i + 1,
                         result, Part(x.st[i].part))
             ELSE [ret |-> result, w |-> x]
    IN  ResultAt(lay, r.w, i + 1, r.ret)

\* Interpose forwarding the input whatever the separator's step returned.
InterposeStepIgnoresSep(lay, x, i, result, input) ==
    IF x.st[i].started
    THEN LET sepr == StepAt(lay, x, i + 1, result, Scalar(lay[i].n))
         IN  StepAt(lay, sepr.w, i + 1, Unreduced(sepr.ret), input)
    ELSE StepAt(lay, [x EXCEPT !.st[i].started = TRUE], i + 1, result, input)

\* Interpose forwarding the separator before the first input too.
InterposeStepLeading(lay, x, i, result, input) ==
    LET sepr == StepAt(lay, x, i + 1, result, Scalar(lay[i].n))
    IN  IF IsReduced(sepr.ret) THEN sepr
        ELSE StepAt(lay, sepr.w, i + 1, sepr.ret, input)

InterposeStep(lay, x, i, result, input) ==
    IF x.st[i].started
    THEN LET sepr == StepAt(lay, x, i + 1, result, Scalar(lay[i].n))
         IN  IF IsReduced(sepr.ret) THEN sepr
             ELSE StepAt(lay, sepr.w, i + 1, sepr.ret, input)
    ELSE StepAt(lay, [x EXCEPT !.st[i].started = TRUE], i + 1, result, input)

\* TakeWhile forwarding the failing input before it terminates.
TakeWhileStepForwardsLast(lay, x, i, result, input) ==
    IF PredFn(lay[i].f, input)
    THEN StepAt(lay, x, i + 1, result, input)
    ELSE LET r == StepAt(lay, x, i + 1, result, input)
         IN  [ret |-> EnsureReduced(r.ret), w |-> r.w]

TakeWhileStep(lay, x, i, result, input) ==
    IF PredFn(lay[i].f, input)
    THEN StepAt(lay, x, i + 1, result, input)
    ELSE [ret |-> EnsureReduced(result), w |-> x]

\* TakeNth counting from zero: the first input is forwarded.
TakeNthStepFromZero(lay, x, i, result, input) ==
    LET count == x.st[i].count + 1
        x1 == [x EXCEPT !.st[i].count = count]
    IN  IF (count - 1) % lay[i].n = 0
        THEN StepAt(lay, x1, i + 1, result, input)
        ELSE [ret |-> result, w |-> x1]

TakeNthStep(lay, x, i, result, input) ==
    LET count == x.st[i].count + 1
        x1 == [x EXCEPT !.st[i].count = count]
    IN  IF count % lay[i].n = 0
        THEN StepAt(lay, x1, i + 1, result, input)
        ELSE [ret |-> result, w |-> x1]

\* DropWhile without the latch: every input satisfying pred is skipped.
DropWhileStepNoLatch(lay, x, i, result, input) ==
    IF PredFn(lay[i].f, input)
    THEN [ret |-> result, w |-> x]
    ELSE StepAt(lay, [x EXCEPT !.st[i].drop = FALSE], i + 1, result, input)

DropWhileStep(lay, x, i, result, input) ==
    IF x.st[i].drop /\ PredFn(lay[i].f, input)
    THEN [ret |-> result, w |-> x]
    ELSE StepAt(lay, [x EXCEPT !.st[i].drop = FALSE], i + 1, result, input)

FilterStep(lay, x, i, result, input) ==
    IF PredFn(lay[i].f, input)
    THEN StepAt(lay, x, i + 1, result, input)
    ELSE [ret |-> result, w |-> x]

MapStep(lay, x, i, result, input) ==
    StepAt(lay, x, i + 1, result, MapperFn(lay[i].f, input))

\* PreservingReduced returning rf.Step's value as it is.
PreservingReducedStepSingle(lay, x, i, result, input) ==
    StepAt(lay, x, i + 1, result, input)

PreservingReducedStep(lay, x, i, result, input) ==
    LET r == StepAt(lay, x, i + 1, result, input)
    IN  IF IsReduced(r.ret) THEN [ret |-> Reduced(r.ret), w |-> r.w] ELSE r

\* The traversal a Cat was given (a user callback): it feeds the elements
\* of the sub-sequence in order into the step it is given and stops at the
\* first Reduced result, which "each" returns with one marker level removed
\* and "raw" returns as it is.
RECURSIVE Traverse(_, _, _, _, _, _)
Traverse(lay, x, i, result, elems, j) ==
    IF j > Len(elems) THEN [ret |-> result, w |-> x]
    ELSE LET r == StepAt(lay, x, i + 1, result, Scalar(elems[j]))
         IN  IF IsReduced(r.ret)
             THEN [ret |-> IF lay[i].f = "each" THEN Deref(r.ret) ELSE r.ret, w |-> r.w]
             ELSE Traverse(lay, r.w, i, r.ret, elems, j + 1)

\* Cat returning the traversal's value with the marker removed.
CatStepUnwraps(lay, x, i, result, input) ==
    LET r == Traverse(lay, x, i, result, input.e, 1)
    IN  [ret |-> Unreduced(r.ret), w |-> r.w]

\* Cat's step: reduceFn(rrf.Step, result, input)
CatStep(lay, x, i, result, input) == Traverse(lay, x, i, result, input.e, 1)

\* Cat's result: Reducing(...)(rf), so rf.Result and not rrf.Result.
CatResult(lay, x, i, result) == ResultAt(lay, x, i + 2, result)

\* Reducing with the result of Completing: func(result) { return result }
ReducingResultIdentity(lay, x, i, result) == [ret |-> result, w |-> x]

\* Reducing's result: func(result) { return step.Result(result) }
ReducingResult(lay, x, i, result) == ResultAt(lay, x, i + 1, result)

\* reducer.Step of the i-th reducing function of the stack (the sink is
\* the one after the last layer).
StepAt(lay, x, i, result, input) ==
    IF x.panic THEN [ret |-> result, w |-> x] ELSE
    Logged(IF i > Len(lay) THEN SinkStep(x, result, input)
           ELSE CASE lay[i].k = "Take" -> TakeStep(lay, x, i, result, input)
                  [] lay[i].k = "Drop" -> DropStep(lay, x, i, result, input)
                  [] lay[i].k = "Dedupe" -> DedupeStep(lay, x, i, result, input)
                  [] lay[i].k = "PartitionAll" -> PartitionAllStep(lay, x, i, result, input)
                  [] lay[i].k = "PartitionBy" -> PartitionByStep(lay, x, i, result, input)
                  [] lay[i].k = "Interpose" -> InterposeStep(lay, x, i, result, input)
                  [] lay[i].k = "TakeWhile" -> TakeWhileStep(lay, x, i, result, input)
                  [] lay[i].k = "TakeNth" -> TakeNthStep(lay, x, i, result, input)
                  [] lay[i].k = "DropWhile" -> DropWhileStep(lay, x, i, result, input)
                  [] lay[i].k = "Filter" -> FilterStep(lay, x, i, result, input)
                  [] lay[i].k = "Map" -> MapStep(lay, x, i, result, input)
                  [] lay[i].k = "Cat" -> CatStep(lay, x, i, result, input)
                  [] lay[i].k = "PreservingReduced" ->
                        PreservingReducedStep(lay, x, i, result, input),
           i, "Step", input, result)

\* reducer.Result of the i-th reducing function of the stack.
ResultAt(lay, x, i, result) ==
    IF x.panic THEN [ret |-> result, w |-> x] ELSE
    Logged(IF i > Len(lay) THEN SinkResult(x, result)
           ELSE CASE lay[i].k = "PartitionAll" -> PartitionAllResult(lay, x, i, result)
                  [] lay[i].k = "PartitionBy" -> PartitionByResult(lay, x, i, result)
                  [] lay[i].k = "Cat" -> CatResult(lay, x, i, result)
                  [] OTHER -> ReducingResult(lay, x, i, result),
           i, "Result", Nil, result)

\* Reducing's init: func() { return step.Init() }, down to the sink's.
RECURSIVE ReducingInit(_, _)
ReducingInit(lay, i) == IF i > Len(lay) THEN SinkInit ELSE ReducingInit(lay, i + 1)

\* reducer.Init of the outermost reducing function of the stack.
InitAt(lay) == ReducingInit(lay, 1)

\* No second application.
NoTwo == [heap |-> <<>>, inst |-> <<>>]

\* ------------------------------------------------------------ the driver
\* The driver of section 6 of the specification: it calls Step once per
\* element, stops at the first Reduced result, and calls Result once on
\* the unwrapped accumulator.
\* The caller has recovered from the panic of the call before.
Recovered(x) == [x EXCEPT !.panic = FALSE]

InitWith(lists, inputs) ==
    /\ ts \in lists
    /\ rf = Apply(Compose(ts), Sink).lay
    /\ w = NewWorld(Apply(Compose(ts), Sink))
    /\ acc = InitAt(rf)
    /\ hist = <<>>
    /\ dom = inputs
    /\ pc = "run"
    /\ val = Plain(<<>>)
    /\ prev = Plain(<<>>)
    /\ op = "none"
    /\ two = NoTwo

Step ==
    /\ pc = "run"
    /\ ~ApplyPanics(rf)
    /\ ~IsReduced(acc)
    /\ Len(hist) < MaxLen
    /\ \E x \in dom :
          LET r == StepAt(rf, Recovered(w), 1, acc, x)
          IN  /\ acc' = IF r.w.panic THEN acc ELSE r.ret
              /\ w' = r.w
              /\ hist' = Append(hist, x)
    /\ UNCHANGED <<ts, rf, dom, pc, val, prev, op, two>>

Finish ==
    /\ pc = "run"
    /\ ~ApplyPanics(rf)
    /\ LET r == ResultAt(rf, Recovered(w), 1, Unreduced(acc))
       IN  /\ acc' = IF r.w.panic THEN acc ELSE r.ret
           /\ w' = r.w
    /\ pc' = "done"
    /\ UNCHANGED <<ts, rf, hist, dom, val, prev, op, two>>

Next == Step \/ Finish

\* One transducer applied to the sink.
Catalog ==
    {Take(n) : n \in -1..MaxN} \cup {Drop(n) : n \in 0..MaxN}
        \cup {Dedupe} \cup {PartitionAll(n) : n \in -1..MaxN}
        \cup {PartitionBy(f) : f \in {"isOdd", "identity", "constant"}}
        \cup {Interpose(sep) : sep \in {1, MaxVal + 1}}
        \cup {TakeWhile(pred) : pred \in {"isOdd", "below3"}}
        \cup {DropWhile(pred) : pred \in {"isOdd", "below3"}}

Init == InitWith({<<t>> : t \in Catalog}, Scalars \cup {Nil})

Spec == Init /\ [][Next]_vars

\* Compose of two catalog transducers applied to the sink.
Pipes ==
    {<<Drop(m), Take(n)>> : m \in 0..MaxN, n \in 1..MaxN}
        \cup {<<TakeNth(n), Take(m)>> : n \in 1..MaxN, m \in 1..MaxN}
        \cup {<<Take(n), PartitionAll(k)>> : n \in 1..MaxN, k \in 1..MaxN}
        \cup {<<Filter(pred), PartitionAll(k)>> : pred \in {"isOdd", "below3"}, k \in 1..MaxN}
        \cup {<<Map("inc"), PartitionBy(f)>> : f \in {"isOdd", "constant"}}
        \cup {<<PartitionAll(k), Take(m)>> : k \in 1..MaxN, m \in 1..MaxN}
        \cup {<<PartitionBy(f), Take(m)>> : f \in {"isOdd", "identity"}, m \in 1..MaxN}
        \cup {<<Interpose(MaxVal + 1), Take(m)>> : m \in 1..MaxN}
        \cup {<<Take(m), Take(n)>> : m \in 1..MaxN, n \in 1..MaxN}

InitPipe == InitWith(Pipes, Scalars)

SpecPipe == InitPipe /\ [][Next]_vars

\* One stateful transducer applied to a sink whose step panics on Bad.
InitFail ==
    InitWith({<<t>> : t \in {Take(2), Dedupe, PartitionAll(2), PartitionBy("isOdd"),
                             Interpose(MaxVal + 1)}},
             {Scalar(1), Scalar(2), Bad})

SpecFail == InitFail /\ [][Next]_vars

\* Compose(Cat(reduce), Take(n)) applied to the sink, given sub-sequences.
SubSeqs == UNION {[1..k -> 1..2] : k \in 0..MaxSub}

InitCat ==
    InitWith({<<Cat(reduce), Take(n)>> : reduce \in {"each", "raw"}, n \in 1..MaxN},
             {Part(xs) : xs \in SubSeqs})

SpecCat == InitCat /\ [][Next]_vars

\* Compose of zero to three transducers applied to the sink.
Atoms ==
    {Take(1), Take(2), Drop(1), Dedupe, Interpose(3), PartitionAll(2), PartitionBy("isOdd"),
     TakeWhile("below3"), Filter("isOdd"), Map("inc")}

\* A partition is forwarded only to layers that take any item.
Typed(xs) ==
    \A i, j \in 1..Len(xs) :
        (i < j /\ xs[i].k \in {"PartitionAll", "PartitionBy"})
            => xs[j].k \in {"Take", "Drop", "Interpose"}

InitCompose ==
    InitWith({xs \in UNION {[1..k -> Atoms] : k \in 0..3} : Typed(xs)},
             {Scalar(1), Scalar(2)})

SpecCompose == InitCompose /\ [][Next]_vars

\* ------------------------------------------- one transducer, applied twice
\* Every catalog transducer declares its variables inside the function it
\* returns (func(rf ReducerFn) ReducerFn { count := n ... }), so the k-th
\* application has its own cell for the variables of its i-th layer.

\* The variables declared once, when the transducer value is built.
CellOfShared(k, i) == <<1, i>>

CellOf(k, i) == <<k, i>>

Stateful ==
    {Take(1), Take(2), Drop(1), Dedupe, PartitionAll(2), PartitionBy("isOdd")}

InitTwo ==
    /\ ts \in {<<t>> : t \in Stateful}
    /\ rf = Apply(Compose(ts), Sink).lay
    /\ dom = {Scalar(1), Scalar(2)}
    /\ two = [heap |-> [c \in {CellOf(k, i) : k \in 1..2, i \in 1..Len(rf)} |->
                            Apply(Compose(ts), Sink).st[c[2]]],
              inst |-> [k \in 1..2 |->
                            [acc |-> InitAt(rf), hist |-> <<>>, pc |-> "run",
                             log |-> NewWorld(Apply(Compose(ts), Sink)).log]]]
    /\ w = NewWorld(Sink)
    /\ acc = SinkInit
    /\ hist = <<>>
    /\ pc = "done"
    /\ val = Plain(<<>>)
    /\ prev = Plain(<<>>)
    /\ op = "none"

\* What the k-th application's closures see.
View(k) ==
    [st |-> [i \in 1..Len(rf) |-> two.heap[CellOf(k, i)]], log |-> two.inst[k].log,
     panic |-> FALSE]

\* The heap after a call on the k-th application left its layers as in x.
Stored(k, x) ==
    [c \in DOMAIN two.heap |-> IF c = CellOf(k, c[2]) THEN x.st[c[2]] ELSE two.heap[c]]

StepOn ==
    \E k \in 1..2 :
        /\ two.inst[k].pc = "run"
        /\ ~IsReduced(two.inst[k].acc)
        /\ Len(two.inst[k].hist) < MaxLen
        /\ \E x \in dom :
              LET r == StepAt(rf, View(k), 1, two.inst[k].acc, x)
              IN  two' = [heap |-> Stored(k, r.w),
                          inst |-> [two.inst EXCEPT ![k] =
                                        [acc |-> r.ret, hist |-> Append(@.hist, x),
                                         pc |-> "run", log |-> r.w.log]]]
        /\ UNCHANGED <<ts, rf, w, acc, hist, dom, pc, val, prev, op>>

FinishOn ==
    \E k \in 1..2 :
        /\ two.inst[k].pc = "run"
        /\ LET r == ResultAt(rf, View(k), 1, Unreduced(two.inst[k].acc))
           IN  two' = [heap |-> Stored(k, r.w),
                       inst |-> [two.inst EXCEPT ![k] =
                                     [acc |-> r.ret, hist |-> @.hist,
                                      pc |-> "done", log |-> r.w.log]]]
        /\ UNCHANGED <<ts, rf, w, acc, hist, dom, pc, val, prev, op>>

NextTwo == StepOn \/ FinishOn

SpecTwo == InitTwo /\ [][NextTwo]_vars

\* -------------------------------------------------- the marker algebra
Payloads == UNION {[1..k -> Scalars] : k \in 0..2}

InitMarker ==
    /\ val \in {Plain(v) : v \in Payloads}
    /\ prev = val
    /\ op = "none"
    /\ ts = <<>>
    /\ rf = <<>>
    /\ w = NewWorld(Sink)
    /\ acc = SinkInit
    /\ hist = <<>>
    /\ dom = {}
    /\ pc = "done"
    /\ two = NoTwo

CallReduced ==
    /\ val.red < MaxDepth
    /\ val' = Reduced(val)
    /\ prev' = val
    /\ op' = "Reduced"
    /\ UNCHANGED <<ts, rf, w, acc, hist, dom, pc, two>>

CallEnsureReduced ==
    /\ val' = EnsureReduced(val)
    /\ prev' = val
    /\ op' = "EnsureReduced"
    /\ UNCHANGED <<ts, rf, w, acc, hist, dom, pc, two>>

CallUnreduced ==
    /\ val' = Unreduced(val)
    /\ prev' = val
    /\ op' = "Unreduced"
    /\ UNCHANGED <<ts, rf, w, acc, hist, dom, pc, two>>

NextMarker == CallReduced \/ CallEnsureReduced \/ CallUnreduced

SpecMarker == InitMarker /\ [][NextMarker]_vars

\* ---------------------------------------------------------- observations
\* The inputs given to Step of the i-th reducing function, in call order.
RECURSIVE InputsOf(_)
InputsOf(evs) ==
    IF evs = <<>> THEN <<>>
    ELSE (IF Head(evs).op = "Step" THEN <<Head(evs).in>> ELSE <<>>) \o InputsOf(Tail(evs))

Fwd(i) == InputsOf(w.log[i])

Min(a, b) == IF a < b THEN a ELSE b

SinkIx == Len(rf) + 1

\* The scalars of a sequence of scalar items.
Codes(xs) == [j \in 1..Len(xs) |-> xs[j].e[1]]

\* The elements of a sequence of partitions, concatenated.
RECURSIVE Flatten(_)
Flatten(ps) == IF ps = <<>> THEN <<>> ELSE Head(ps).e \o Flatten(Tail(ps))

\* xs with each run of adjacent equal elements collapsed to its first.
RECURSIVE Collapse(_)
Collapse(xs) ==
    IF Len(xs) <= 1 THEN xs
    ELSE LET front == SubSeq(xs, 1, Len(xs) - 1)
         IN  IF xs[Len(xs)] = xs[Len(xs) - 1] THEN Collapse(front)
             ELSE Append(Collapse(front), xs[Len(xs)])

\* x1, sep, x2, sep, ..., xk
Interleave(xs, sep) ==
    IF xs = <<>> THEN <<>>
    ELSE [j \in 1..(2 * Len(xs) - 1) |-> IF j % 2 = 1 THEN xs[(j + 1) \div 2] ELSE sep]

\* The sink was given Step calls only, and then one Result call.
SinkFinishedLast ==
    LET lg == w.log[SinkIx]
    IN  /\ lg # <<>>
        /\ lg[Len(lg)].op = "Result"
        /\ \A j \in 1..(Len(lg) - 1) : lg[j].op = "Step"

\* The driver's j-th Step call returned a Reduced value.
StepReduced(j) == w.log[1][j].red > 0

\* A reducing function driven from scratch with the inputs xs, and finished
\* when done: what the driver holds and what the layers hold.
RECURSIVE Feed(_, _, _, _)
Feed(lay, d, xs, i) ==
    IF i > Len(xs) THEN d
    ELSE LET r == StepAt(lay, Recovered(d.w), 1, d.acc, xs[i])
         IN  Feed(lay, [acc |-> IF r.w.panic THEN d.acc ELSE r.ret, w |-> r.w], xs, i + 1)

Replay(s, xs, done) ==
    LET d == Feed(s.lay, [acc |-> InitAt(s.lay), w |-> NewWorld(s)], xs, 1)
        r == ResultAt(s.lay, Recovered(d.w), 1, Unreduced(d.acc))
    IN  IF done THEN [acc |-> IF r.w.panic THEN d.acc ELSE r.ret, w |-> r.w] ELSE d

\* xs[i](xs[i+1](... (sink))): the transducers applied one by one.
RECURSIVE Nested(_, _)
Nested(xs, i) == IF i > Len(xs) THEN Sink ELSE Apply(xs[i], Nested(xs, i + 1))

Observed == [acc |-> acc, w |-> w]

\* ----------------------------------------------------------------- claims

\* C1: a fresh Take(n), n >= 1, forwards exactly the first min(n, length)
\* inputs in order, and the Step that consumes the n-th input is the first
\* (and, before n inputs, no Step is) one that returns a Reduced value.
C1_TakeFirstN ==
    \A n \in 1..MaxN :
        (ts = <<Take(n)>>) =>
            /\ Fwd(SinkIx) = SubSeq(hist, 1, Min(n, Len(hist)))
            /\ \A j \in 1..Len(hist) : StepReduced(j) <=> (j = n)
            /\ (Len(hist) < n => ~IsReduced(acc))

C1_Witness ==
    /\ ts = <<Take(2)>>
    /\ pc = "run"
    /\ Len(hist) = 2
    /\ IsReduced(acc)
    /\ ~StepReduced(1)

\* C2: Compose(a, b, c)(s) behaves as a(b(c(s))) on every sequence of
\* Init/Step/Result calls (same calls on every layer and on the sink, same
\* return values), and the grouping of the pairwise fold does not matter.
C2_ComposeIsNesting ==
    (Len(ts) = 3) =>
        /\ Observed = Replay(Nested(ts, 1), hist, pc = "done")
        /\ Observed = Replay(Apply(TCompose(ts[1], TCompose(ts[2], ts[3])), Sink),
                             hist, pc = "done")
        /\ Observed = Replay(Apply(TCompose(TCompose(ts[1], ts[2]), ts[3]), Sink),
                             hist, pc = "done")

C2_Witness ==
    /\ ts = <<Drop(1), Dedupe, Take(2)>>
    /\ pc = "done"
    /\ Len(hist) = 4
    /\ Len(Fwd(SinkIx)) = 2

\* C3: Compose() applied to s is s itself (every call behaves as on s), and
\* Compose(t) is t unchanged.
C3_ComposeIdentity ==
    /\ Apply(Compose(<<>>), Nested(ts, 1)) = Nested(ts, 1)
    /\ (Len(ts) = 0) =>
           /\ Apply(Compose(ts), Sink) = Sink
           /\ rf = Sink.lay
           /\ Observed = Replay(Sink, hist, pc = "done")
           /\ Fwd(SinkIx) = hist
    /\ (Len(ts) = 1) =>
           /\ Compose(ts) = ts[1]
           /\ Observed = Replay(Apply(ts[1], Sink), hist, pc = "done")

C3_Witness ==
    /\ Len(ts) = 0
    /\ pc = "done"
    /\ Len(hist) = 2
    /\ acc.v = hist

\* C4: Compose(Drop(m), Take(n)) forwards exactly the inputs at positions
\* m+1 .. m+n in order: Drop sees every input first and skips the first m
\* with the accumulator unchanged, Take sees only what Drop forwards, and the
\* Step that consumes input m+n is the one that returns Reduced.
C4_DropThenTake ==
    \A m \in 0..MaxN, n \in 1..MaxN :
        (ts = <<Drop(m), Take(n)>>) =>
            /\ Fwd(1) = hist
            /\ Fwd(2) = SubSeq(hist, m + 1, Len(hist))
            /\ Fwd(SinkIx) = SubSeq(hist, m + 1, Min(m + n, Len(hist)))
            /\ \A j \in 1..Len(hist) : StepReduced(j) <=> (j = m + n)
            /\ (Len(hist) <= m /\ pc = "run" => acc = SinkInit)
            /\ (IsReduced(acc) => Len(hist) = m + n)

C4_Witness ==
    /\ ts = <<Drop(2), Take(2)>>
    /\ pc = "run"
    /\ IsReduced(acc)
    /\ Fwd(SinkIx) = SubSeq(hist, 3, 4)
    /\ Len(hist) = 4

\* C5: Unreduced(Reduced(v)) = v and IsReduced(Reduced(v)) for every v
\* (Reduced or not); IsReduced(v) is false and Unreduced(v) = v for every v
\* that is not a Reduced marker.
C5_MarkerRoundTrip ==
    /\ Unreduced(Reduced(val)) = val
    /\ IsReduced(Reduced(val))
    /\ (val \in {Plain(v) : v \in Payloads}) => (~IsReduced(val) /\ Unreduced(val) = val)
    /\ (op = "Reduced") => (IsReduced(val) /\ Unreduced(val) = prev)
    /\ (op = "Unreduced" /\ prev \in {Plain(v) : v \in Payloads}) => (val = prev)

C5_Witness ==
    /\ op = "Reduced"
    /\ IsReduced(prev)
    /\ Unreduced(val) = prev
    /\ Len(val.v) = 2

\* C6: EnsureReduced is idempotent: EnsureReduced(Reduced(v)) is wrapped
\* once (one Unreduced yields the unwrapped v), EnsureReduced(EnsureReduced(x))
\* is nested as deep as EnsureReduced(x); Reduced(Reduced(v)) is wrapped twice
\* and Unreduced strips one level of it.
C6_EnsureReducedIdempotent ==
    /\ EnsureReduced(EnsureReduced(val)) = EnsureReduced(val)
    /\ (op = "EnsureReduced") => (val = IF IsReduced(prev) THEN prev ELSE Reduced(prev))
    /\ (val \in {Plain(v) : v \in Payloads}) =>
           /\ EnsureReduced(Reduced(val)) = Reduced(val)
           /\ Unreduced(EnsureReduced(Reduced(val))) = val
           /\ ~IsReduced(Unreduced(EnsureReduced(Reduced(val))))
           /\ IsReduced(Unreduced(Reduced(Reduced(val))))
           /\ ~IsReduced(Unreduced(Unreduced(Reduced(Reduced(val)))))
           /\ Unreduced(Unreduced(Reduced(Reduced(val)))) = val

C6_Witness ==
    /\ op = "EnsureReduced"
    /\ IsReduced(prev)
    /\ ~IsReduced(Unreduced(prev))
    /\ val = prev

\* C7: a fresh Dedupe() forwards an input exactly when it differs from the
\* immediately preceding input of the stream: the forwarded sequence is the
\* input with each run of adjacent equal elements collapsed to one.
C7_DedupeCollapsesRuns ==
    (ts = <<Dedupe>>) => (Fwd(SinkIx) = Collapse(hist))

\* C8: PartitionAll(n), n >= 1, forwards the inputs as consecutive
\* partitions whose concatenation is the input: every partition forwarded
\* from Step has n elements and the buffer holds fewer than n between Steps;
\* Result forwards a non-empty buffer as one last partition of 1..n-1
\* elements, and only then calls the sink's Result.
C8_PartitionAllChunks ==
    \A n \in 1..MaxN :
        (ts = <<PartitionAll(n)>>) =>
            LET f == Fwd(SinkIx)
                part == w.st[1].part
            IN  /\ \A j \in 1..Len(f) : f[j].p /\ Len(f[j].e) \in 1..n
                /\ \A j \in 1..(Len(f) - 1) : Len(f[j].e) = n
                /\ (pc = "run") =>
                       /\ Flatten(f) \o part = Codes(hist)
                       /\ Len(part) < n
                       /\ \A j \in 1..Len(f) : Len(f[j].e) = n
                       /\ \A j \in 1..Len(w.log[SinkIx]) : w.log[SinkIx][j].op = "Step"
                /\ (pc = "done") =>
                       /\ Flatten(f) = Codes(hist)
                       /\ part = <<>>
                       /\ Len(f) = (Len(hist) + n - 1) \div n
                       /\ SinkFinishedLast

C8_Witness ==
    /\ ts = <<PartitionAll(3)>>
    /\ pc = "done"
    /\ Len(hist) = 4
    /\ Fwd(SinkIx) = <<Part(Codes(SubSeq(hist, 1, 3))), Part(Codes(SubSeq(hist, 4, 4)))>>

\* C9: PartitionBy(f) forwards the inputs as non-empty partitions whose
\* concatenation is the input, each a maximal run of consecutive inputs with
\* equal f-key (adjacent partitions differ in key), the last one flushed on
\* Result before the sink's Result.
C9_PartitionByRuns ==
    \A f \in {"isOdd", "identity", "constant"} :
        (ts = <<PartitionBy(f)>>) =>
            LET fw == Fwd(SinkIx)
                part == w.st[1].part
                Key(c) == MapFn(f, Scalar(c))
                OneKey(cs) == \A a, b \in 1..Len(cs) : Key(cs[a]) = Key(cs[b])
            IN  /\ \A j \in 1..Len(fw) : fw[j].p /\ fw[j].e # <<>> /\ OneKey(fw[j].e)
                /\ \A j \in 1..(Len(fw) - 1) :
                       Key(fw[j].e[Len(fw[j].e)]) # Key(fw[j + 1].e[1])
                /\ (pc = "run") =>
                       /\ Flatten(fw) \o part = Codes(hist)
                       /\ OneKey(part)
                       /\ (hist # <<>>) => (part # <<>>)
                       /\ (fw # <<>>) => (Key(fw[Len(fw)].e[1]) # Key(part[1]))
                /\ (pc = "done") =>
                       /\ Flatten(fw) = Codes(hist)
                       /\ part = <<>>
                       /\ SinkFinishedLast

C9_Witness ==
    /\ ts = <<PartitionBy("isOdd")>>
    /\ pc = "done"
    /\ Len(hist) = 4
    /\ Len(Fwd(SinkIx)) = 3
    /\ Len(Fwd(SinkIx)[2].e) = 2
    /\ Fwd(SinkIx)[2].e[1] # Fwd(SinkIx)[2].e[2]

\* C10: Interpose(sep) over x1..xk, k >= 1, forwards exactly
\* x1, sep, x2, sep, ..., xk: 2k-1 items, no separator before the first
\* input and none after the last.
C10_InterposeBetween ==
    \A sep \in 0..(MaxVal + 1) :
        (ts = <<Interpose(sep)>>) =>
            /\ Fwd(SinkIx) = Interleave(hist, Scalar(sep))
            /\ (hist # <<>>) => (Len(Fwd(SinkIx)) = 2 * Len(hist) - 1)
            /\ acc.v = Fwd(SinkIx)

C10_Witness ==
    /\ ts = <<Interpose(MaxVal + 1)>>
    /\ Len(hist) = 3
    /\ Len(Fwd(SinkIx)) = 5
    /\ Fwd(SinkIx)[4] = Scalar(MaxVal + 1)
    /\ Fwd(SinkIx)[5] = hist[3]

\* The longest prefix of xs whose elements satisfy the predicate f.
RECURSIVE PrefixWhile(_, _)
PrefixWhile(f, xs) ==
    IF xs = <<>> \/ ~PredFn(f, Head(xs)) THEN <<>>
    ELSE <<Head(xs)>> \o PrefixWhile(f, Tail(xs))

\* C11: TakeWhile(pred) forwards exactly the longest prefix of inputs that
\* satisfy pred; the first input failing pred makes its Step return a Reduced
\* accumulator without a downstream Step call for that input.
C11_TakeWhilePrefix ==
    \A pred \in {"isOdd", "below3"} :
        (ts = <<TakeWhile(pred)>>) =>
            /\ Fwd(SinkIx) = PrefixWhile(pred, hist)
            /\ acc.v = PrefixWhile(pred, hist)
            /\ \A j \in 1..Len(hist) : StepReduced(j) <=> ~PredFn(pred, hist[j])
            /\ (pc = "run") =>
                   (IsReduced(acc) <=> (hist # <<>> /\ ~PredFn(pred, hist[Len(hist)])))

C11_Witness ==
    /\ ts = <<TakeWhile("below3")>>
    /\ pc = "run"
    /\ Len(hist) = 3
    /\ IsReduced(acc)
    /\ Fwd(SinkIx) = SubSeq(hist, 1, 2)

\* C12: two applications of one stateful transducer value have independent
\* private state: under every interleaving of the calls on the two, what
\* each forwards, returns and holds is what it would be driven alone with
\* its own calls.
C12_IndependentInstances ==
    \A k \in 1..2 :
        [acc |-> two.inst[k].acc, w |-> View(k)]
            = Replay(Apply(Compose(ts), Sink), two.inst[k].hist, two.inst[k].pc = "done")

C12_Witness ==
    /\ ts = <<Take(2)>>
    /\ Len(two.inst[1].hist) = 2
    /\ Len(two.inst[2].hist) = 1
    /\ IsReduced(two.inst[1].acc)
    /\ ~IsReduced(two.inst[2].acc)
    /\ two.inst[2].pc = "run"
    /\ two.heap[CellOf(1, 1)].count = 0
    /\ two.heap[CellOf(2, 1)].count = 1

\* The elements of xs at positions n, 2n, 3n, ...
EveryNth(n, xs) == [j \in 1..(Len(xs) \div n) |-> xs[j * n]]

C14_DropWhileLatch ==
    /\ [](\A pred \in {"isOdd", "below3"} :
              (ts = <<DropWhile(pred)>>) =>
                  LET k == Len(PrefixWhile(pred, hist))
                  IN  /\ w.st[1].drop <=> (k = Len(hist))
                      /\ Fwd(SinkIx) = SubSeq(hist, k + 1, Len(hist))
                      /\ acc.v = Fwd(SinkIx))
    /\ [][\A pred \in {"isOdd", "below3"} :
              (ts = <<DropWhile(pred)>> /\ ~w.st[1].drop) => ~w'.st[1].drop]_vars

C14_Witness ==
    /\ ts = <<DropWhile("below3")>>
    /\ Codes(hist) = <<1, 3, 1>>
    /\ Fwd(SinkIx) = SubSeq(hist, 2, 3)
    /\ ~w.st[1].drop

\* The Step calls of a call record.
StepsOf(evs) == SelectSeq(evs, LAMBDA ev : ev.op = "Step")

\* C15: PreservingReduced(rf).Step returns Reduced(Reduced(a)) exactly when
\* rf.Step returned Reduced(a) and rf.Step's value unchanged otherwise; Cat
\* hands this step to the traversal, so a downstream termination inside a
\* sub-sequence reaches the traversal doubly wrapped.
C15_PreservingReducedDoubleWraps ==
    \A reduce \in {"each", "raw"}, n \in 1..MaxN :
        (ts = <<Cat(reduce), Take(n)>>) =>
            LET mine == w.log[2]
                down == StepsOf(w.log[3])
            IN  /\ rf[2] = PreservingReduced
                /\ Len(mine) = Len(down)
                /\ Codes(Fwd(2)) = SubSeq(Flatten(hist), 1, Len(mine))
                /\ \A j \in 1..Len(mine) :
                       /\ mine[j].in = down[j].in
                       /\ mine[j].given = down[j].given
                       /\ mine[j].out = down[j].out
                       /\ down[j].red \in {0, 1}
                       /\ mine[j].red = IF down[j].red = 1 THEN 2 ELSE 0

C15_Witness ==
    /\ ts = <<Cat("each"), Take(2)>>
    /\ pc = "run"
    /\ hist = <<Part(<<1>>), Part(<<2, 1>>)>>
    /\ Len(w.log[2]) = 2
    /\ w.log[2][2].red = 2
    /\ w.log[3][2].red = 1
    /\ w.log[1][2].red = 1

\* The last call recorded on the i-th reducing function.
LastOf(i) == w.log[i][Len(w.log[i])]

\* Compose(t, p) with t made by Reducing and p a partitioning transducer.
OverPartition ==
    {<<Take(n), PartitionAll(k)>> : n \in 1..MaxN, k \in 1..MaxN}
        \cup {<<Filter(pred), PartitionAll(k)>> : pred \in {"isOdd", "below3"}, k \in 1..MaxN}
        \cup {<<Map("inc"), PartitionBy(f)>> : f \in {"isOdd", "constant"}}

\* C16: a reducing function made by Reducing forwards Init and Result to the
\* one it was applied to, unchanged: the driver's Result call reaches every
\* layer once, so a PartitionAll / PartitionBy under Map, Filter or Take
\* flushes its pending partition into the sink on finish; the sink made by
\* Completing has an Init returning the empty value and an identity Result.
C16_ReducingForwardsInitResult ==
    (ts \in OverPartition) =>
        /\ InitAt(rf) = Plain(<<>>)
        /\ (hist = <<>> /\ pc = "run") => acc = Plain(<<>>)
        /\ (pc = "run") => \A i \in 1..SinkIx : StepsOf(w.log[i]) = w.log[i]
        /\ (pc = "done") =>
               /\ \A i \in 1..SinkIx :
                      /\ w.log[i] # <<>>
                      /\ LastOf(i).op = "Result"
                      /\ Len(StepsOf(w.log[i])) = Len(w.log[i]) - 1
               /\ LastOf(1).given = LastOf(2).given
               /\ LastOf(1).acc = LastOf(2).acc
               /\ LastOf(1).out = LastOf(2).out
               /\ LastOf(1).red = LastOf(2).red
               /\ LastOf(SinkIx).out = LastOf(SinkIx).given
               /\ LastOf(SinkIx).red = LastOf(SinkIx).acc
               /\ w.st[2].part = <<>>
               /\ Flatten(Fwd(SinkIx)) = Codes(Fwd(2))
               /\ acc = Plain(Fwd(SinkIx))

C16_Witness ==
    /\ ts = <<Take(3), PartitionAll(2)>>
    /\ pc = "done"
    /\ Len(hist) = 3
    /\ Fwd(SinkIx) = <<Part(Codes(SubSeq(hist, 1, 2))), Part(Codes(SubSeq(hist, 3, 3)))>>
    /\ LastOf(SinkIx).op = "Result"

\* C17: the first input given to a fresh Dedupe() is always forwarded
\* downstream, also when it is nil: the instance's initial state compares
\* unequal to every input.
C17_DedupeFirstForwarded ==
    (ts = <<Dedupe>> /\ hist # <<>>) =>
        /\ Fwd(SinkIx) # <<>>
        /\ Fwd(SinkIx)[1] = hist[1]

\* The Result calls of a call record.
ResultsOf(evs) == SelectSeq(evs, LAMBDA ev : ev.op = "Result")

\* C18: when PartitionAll(n)'s Result flushes a non-empty buffer and the
\* downstream Step returns a Reduced value for that partition, the
\* downstream Result is still called on the unwrapped accumulator: no
\* Result below PartitionAll is given a Reduced value.
C18_PartitionAllResultUnwraps ==
    \A k \in 1..MaxN, m \in 1..MaxN :
        (ts = <<PartitionAll(k), Take(m)>>) =>
            \A i \in 2..SinkIx :
                \A j \in 1..Len(ResultsOf(w.log[i])) : ResultsOf(w.log[i])[j].acc = 0

\* Compose(PartitionBy(f), Take(m)).
ByThenTake == {<<PartitionBy(f), Take(m)>> : f \in {"isOdd", "identity"}, m \in 1..MaxN}

\* C19: when PartitionBy(f)'s Result flushes a non-empty buffer it strips
\* the Reduced marker from the downstream Step's value before the
\* downstream Result, so no Result below PartitionBy is given a Reduced
\* value; with an empty buffer Result makes no downstream Step call and
\* hands the accumulator it was given to the downstream Result.
C19_PartitionByResultUnwraps ==
    /\ []((ts \in ByThenTake) =>
              /\ \A i \in 2..SinkIx :
                     \A j \in 1..Len(ResultsOf(w.log[i])) : ResultsOf(w.log[i])[j].acc = 0
              /\ (pc = "done") => ~IsReduced(acc))
    /\ [][(ts \in ByThenTake /\ pc = "run" /\ pc' = "done") =>
              LET before == StepsOf(w.log[2])
                  after == StepsOf(w'.log[2])
                  finish == w'.log[2][Len(w'.log[2])]
              IN  /\ finish.op = "Result"
                  /\ IF w.st[1].part = <<>>
                     THEN /\ after = before
                          /\ finish.given = acc.v
                     ELSE /\ Len(after) = Len(before) + 1
                          /\ SubSeq(after, 1, Len(before)) = before
                          /\ after[Len(after)].in = Part(w.st[1].part)
                          /\ after[Len(after)].acc = 0
                          /\ finish.given = after[Len(after)].out]_vars

C19_Witness ==
    /\ ts = <<PartitionBy("isOdd"), Take(1)>>
    /\ pc = "done"
    /\ Codes(hist) = <<1, 3>>
    /\ StepsOf(w.log[2])[1].red = 1
    /\ LastOf(2).op = "Result"
    /\ LastOf(2).acc = 0
    /\ acc = Plain(<<Part(<<1, 3>>)>>)

\* C20: when a PartitionBy(f) Step sees a key change and the flush makes the
\* downstream Step return Reduced, the input is not put into the new buffer,
\* the Step returns that Reduced value and the buffer stays empty, so a
\* following Result forwards no further partition; when the flush does not
\* return Reduced, the new buffer holds exactly the input.
C20_PartitionByFlushReduced ==
    /\ []((ts \in ByThenTake /\ pc = "run" /\ IsReduced(acc)) =>
              /\ w.st[1].part = <<>>
              /\ Flatten(Fwd(2)) = Codes(SubSeq(hist, 1, Len(hist) - 1)))
    /\ [][(ts \in ByThenTake /\ hist' # hist) =>
              LET input == hist'[Len(hist')]
                  pval == w.st[1].prior
                  flush == w'.log[2][Len(w'.log[2])]
              IN  (~pval.mark /\ pval.v # MapFn(ts[1].f, input)) =>
                      /\ Len(w'.log[2]) = Len(w.log[2]) + 1
                      /\ flush.in = Part(w.st[1].part)
                      /\ acc' = [red |-> flush.red, v |-> flush.out]
                      /\ w'.st[1].part = IF flush.red > 0 THEN <<>> ELSE <<input.e[1]>>]_vars
    /\ [][(ts \in ByThenTake /\ pc = "run" /\ IsReduced(acc) /\ pc' = "done") =>
              /\ StepsOf(w'.log[2]) = StepsOf(w.log[2])
              /\ Fwd(SinkIx)' = Fwd(SinkIx)
              /\ acc' = Unreduced(acc)]_vars

C20_Witness ==
    /\ ts = <<PartitionBy("isOdd"), Take(1)>>
    /\ pc = "done"
    /\ Codes(hist) = <<1, 1, 2>>
    /\ w.st[1].part = <<>>
    /\ Fwd(2) = <<Part(<<1, 1>>)>>
    /\ acc = Plain(<<Part(<<1, 1>>)>>)

\* C21: in an Interpose(sep) Step for an input after the first, when the
\* downstream Step given the separator returns Reduced, the Step returns
\* that value at once and the downstream Step is not called with the input:
\* Compose(Interpose(sep), Take(2)) over a, b, c forwards exactly a, sep.
C21_InterposeStopsAtSeparator ==
    \A m \in 1..MaxN :
        (ts = <<Interpose(MaxVal + 1), Take(m)>>) =>
            LET all == Interleave(hist, Scalar(MaxVal + 1))
                last == w.log[1][Len(hist)]
                down == StepsOf(w.log[2])
            IN  /\ Fwd(2) = SubSeq(all, 1, Min(m, Len(all)))
                /\ Fwd(SinkIx) = Fwd(2)
                /\ \A j \in 1..Len(hist) : StepReduced(j) <=> (j = (m \div 2) + 1)
                /\ (hist # <<>> /\ last.red > 0) =>
                       /\ last.red = down[Len(down)].red
                       /\ last.out = down[Len(down)].out
                       /\ (m % 2 = 0) =>
                              /\ down[Len(down)].in = Scalar(MaxVal + 1)
                              /\ Len(down) = 2 * Len(hist) - 2

C21_Witness ==
    /\ ts = <<Interpose(MaxVal + 1), Take(2)>>
    /\ Len(hist) = 2
    /\ IsReduced(acc)
    /\ Fwd(SinkIx) = <<hist[1], Scalar(MaxVal + 1)>>

\* C22: in a pipeline of catalog transducers over a sink, driven by a driver
\* that stops at the first Reduced result and then calls Result once, once a
\* Step call made on a layer's downstream has returned Reduced, that
\* downstream's Step is not called again, neither later in the same outer
\* Step nor during the finish flush.
C22_NoStepAfterReduced ==
    \A i \in 2..SinkIx :
        \A j, k \in 1..Len(w.log[i]) :
            (j < k /\ w.log[i][j].op = "Step" /\ w.log[i][j].red > 0)
                => w.log[i][k].op # "Step"

C22_Witness ==
    /\ ts = <<PartitionBy("isOdd"), Interpose(3), Take(2)>>
    /\ pc = "done"
    /\ Codes(hist) = <<1, 2, 1>>
    /\ Fwd(SinkIx) = <<Part(<<1>>), Scalar(3)>>
    /\ StepsOf(w.log[3])[2].red = 1
    /\ LastOf(3).op = "Result"

\* C23: Take signals termination with exactly one Reduced level whether or
\* not its downstream already did: Compose(Take(m), Take(n)), m, n >= 1,
\* forwards exactly the first min(m, n) inputs to the sink and the Step that
\* consumes input min(m, n) returns v with IsReduced(v) and
\* ~IsReduced(Unreduced(v)), also when m = n.
C23_TakeSignalsOnce ==
    \A m \in 1..MaxN, n \in 1..MaxN :
        (ts = <<Take(m), Take(n)>>) =>
            /\ Fwd(SinkIx) = SubSeq(hist, 1, Min(Min(m, n), Len(hist)))
            /\ \A j \in 1..Len(hist) : StepReduced(j) <=> (j = Min(m, n))
            /\ \A j \in 1..Len(hist) : w.log[1][j].red \in {0, 1}
            /\ (pc = "run" /\ Len(hist) = Min(m, n)) =>
                   /\ IsReduced(acc)
                   /\ ~IsReduced(Unreduced(acc))
                   /\ Unreduced(acc) = Plain(Fwd(SinkIx))

C23_Witness ==
    /\ ts = <<Take(2), Take(2)>>
    /\ pc = "run"
    /\ Len(hist) = 2
    /\ w.st[1].count = 0
    /\ w.st[2].count = 0
    /\ w.log[2][2].red = 1
    /\ IsReduced(acc)
    /\ ~IsReduced(Unreduced(acc))

\* C24: for n <= 0 the first Step on a fresh Take(n) makes no downstream
\* Step and returns Reduced of the accumulator it was given; the instance
\* never forwards an input.
C24_TakeNonPositive ==
    \A n \in -1..0 :
        (ts = <<Take(n)>>) =>
            /\ Fwd(SinkIx) = <<>>
            /\ Len(hist) <= 1
            /\ (hist # <<>>) =>
                   /\ w.log[1][1].red = 1
                   /\ w.log[1][1].acc = 0
                   /\ w.log[1][1].out = w.log[1][1].given
                   /\ (pc = "run") => acc = Reduced(SinkInit)
                   \* also for a caller that goes on calling Step
                   /\ InputsOf(Replay(Apply(Compose(ts), Sink), hist \o hist \o hist,
                                       FALSE).w.log[2]) = <<>>

C24_Witness ==
    /\ ts = <<Take(0)>>
    /\ pc = "run"
    /\ Len(hist) = 1
    /\ acc = Reduced(Plain(<<>>))
    /\ w.log[2] = <<>>

\* C25: PartitionAll(n) with n <= 0 is a caller error, a failure when the
\* transducer is built, applied or first stepped: it yields no reducing
\* function that accepts an input or forwards a partition.
C25_PartitionAllRejectsNonPositive ==
    \A n \in -1..0 :
        (ts = <<PartitionAll(n)>>) =>
            /\ \A j \in 1..Len(w.log[1]) : w.log[1][j].op = "Step" => w.log[1][j].failed
            /\ Fwd(SinkIx) = <<>>

\* C27: a Step of a stateful transducer instance that fails because the
\* downstream step fails leaves the instance's private state as it was
\* before the call: buffered elements are still held, Take's count is not
\* consumed, Dedupe's last-seen value is not replaced.
C27_FailedStepKeepsState ==
    (Len(ts) = 1 /\ pc = "run" /\ w.panic) =>
        w.st[1] = Replay(Apply(Compose(ts), Sink), SubSeq(hist, 1, Len(hist) - 1), FALSE).w.st[1]

\* The number of elements in the first j sub-sequences given.
Total(j) == Len(Flatten(SubSeq(hist, 1, j)))

\* C26: Cat with a traversal that feeds the elements in order, stops at the
\* first Reduced result and removes one Reduced level from it: the elements
\* of successive sub-sequences reach the sink flattened in order; when the
\* downstream Step returns Reduced part-way through a sub-sequence no
\* further element of it reaches the sink and Cat's Step returns a value
\* that is still Reduced, so the driver stops and traverses no later one.
C26_CatFlattensAndStops ==
    \A n \in 1..MaxN :
        (ts = <<Cat("each"), Take(n)>>) =>
            /\ Fwd(1) = hist
            /\ Codes(Fwd(SinkIx)) = SubSeq(Flatten(hist), 1, Min(n, Total(Len(hist))))
            /\ acc.v = Fwd(SinkIx)
            /\ \A j \in 1..Len(hist) :
                   /\ Total(j - 1) < n
                   /\ w.log[1][j].red = IF Total(j) >= n THEN 1 ELSE 0
            /\ (pc = "run") => (IsReduced(acc) <=> Total(Len(hist)) >= n)

C26_Witness ==
    /\ ts = <<Cat("each"), Take(2)>>
    /\ pc = "run"
    /\ hist = <<Part(<<1>>), Part(<<>>), Part(<<2, 1>>)>>
    /\ Codes(Fwd(SinkIx)) = <<1, 2>>
    /\ acc = Reduced(Plain(Fwd(SinkIx)))

====
